---------------------------- MODULE Spec2Model ----------------------------
(***************************************************************************)
(* A model of solartoolbox/signalproc.py: the one dimensional plant        *)
(* layout (get_1d_plant), the cloud advection filter                       *)
(* (plant1d_to_camfilter), the transfer function interpolation             *)
(* (interp_tf), the frequency domain filtering (apply_filter), the         *)
(* segmentation of the spectral estimates (averaged_psd, averaged_tf) and  *)
(* the frequency axis cleanup (cleanfreq).                                 *)
(*                                                                         *)
(* Every function is a small state machine: its arguments are chosen by    *)
(* Init, one action is taken per statement group or loop iteration, and    *)
(* the result (or the exception) is left in the function's variables.      *)
(* Each function has a specification of its own (SpecPlant, SpecCam, ...). *)
(***************************************************************************)
EXTENDS Integers, Sequences, FiniteSets

(***************************************************************************)
(* The state: the arguments, the locals and the result of each function,   *)
(* and the statement it has reached (pc_...).  The sections below say how  *)
(* each value is held.                                                     *)
(***************************************************************************)
VARIABLES
    shape,        \* the shape tag, a sequence of characters
    centers,      \* the list of centers (re-centered by the first step)
    ref_center,   \* the position of the reference
    width,        \* {} for None, {v} for the width v
    dx,           \* the grid step
    xmax,         \* the extent of the domain
    w,            \* the width in use
    x_vec,        \* the position axis
    plant,        \* twice the density of a square or triangle plant
    bumps,        \* the Gaussian bumps added at each position
    placed,       \* how many centers the loop has placed
    pc_plant      \* "call", "square", "triangle", "gaussian", "return", "raise"

plantVars == <<shape, centers, ref_center, width, dx, xmax, w, x_vec, plant,
               bumps, placed, pc_plant>>

VARIABLES
    sig_index,    \* sig.index
    sig_data,     \* the values of sig
    ret_clean,    \* what the call returned: "None" or "sig"
    pc_clean      \* "call", "done", "IndexError"

cleanVars == <<sig_index, sig_data, ret_clean, pc_clean>>

VARIABLES
    seg_fn,       \* the function called: "averaged_psd" or "averaged_tf"
    tsig_len,     \* len(input_tsig)
    navgs,        \* the number of averages
    overlap,      \* the overlap fraction <<numerator, denominator>>
    window,       \* the window type
    detrend,      \* the detrend type
    scaling,      \* the scaling asked of averaged_psd
    nperseg,      \* averaged_tf's nperseg
    noverlap,     \* averaged_tf's noverlap
    est_calls,    \* the calls to scipy.signal, in order
    pc_seg        \* "call", "segment", "psd", "csd", "coherence", "done", "IndexError"

segVars == <<seg_fn, tsig_len, navgs, overlap, window, detrend, scaling,
             nperseg, noverlap, est_calls, pc_seg>>

VARIABLES
    cam_plant,    \* plant, the density along x_plant
    x_plant,      \* the position axis of the plant
    cloud_speed,  \* the signed cloud speed
    camfilt,      \* the values of the filter, one per bin
    camfreq,      \* the frequencies of the filter, one per bin
    pc_cam        \* "call", "shift", "done", "IndexError"

camVars == <<cam_plant, x_plant, cloud_speed, camfilt, camfreq, pc_cam>>

VARIABLES
    tf_kind,      \* the type of input_tf: "Series" or "DataFrame"
    tf_index,     \* input_tf.index, the frequencies in the order of the rows
    tf_values,    \* the rows of input_tf, each the values of its columns
    new_freq,     \* the frequencies to interpolate onto
    interp_filt,  \* the result: its type, its index and its rows
    pc_interp     \* "call", "done", "ValueError"

interpVars == <<tf_kind, tf_index, tf_values, new_freq, interp_filt, pc_interp>>

VARIABLES
    input_len,    \* len(input_tsig)
    comp_index,   \* comp_filt.index
    comp_values,  \* the values of comp_filt, a Series
    f_vec,        \* the frequencies of the bins of the signal
    applied_filt, \* the filter interpolated onto f_vec
    filtered_fft, \* the multipliers of the bins of input_fft
    pc_filter     \* "call", "check", "interp", "multiply", "done",
                  \* "IndexError", "CoverageError", "ValueError"

filterVars == <<input_len, comp_index, comp_values, f_vec, applied_filt,
                filtered_fft, pc_filter>>

vars == <<plantVars, cleanVars, segVars, camVars, interpVars, filterVars>>

\* the variables of the other functions
notPlant == <<cleanVars, segVars, camVars, interpVars, filterVars>>

\* the variables of the other functions
notClean == <<plantVars, segVars, camVars, interpVars, filterVars>>

\* the variables of the other functions
notSeg == <<plantVars, cleanVars, camVars, interpVars, filterVars>>

\* the variables of the other functions
notCam == <<plantVars, cleanVars, segVars, interpVars, filterVars>>

\* the variables of the other functions
notInterp == <<plantVars, cleanVars, segVars, camVars, filterVars>>

\* the variables of the other functions
notFilter == <<plantVars, cleanVars, segVars, camVars, interpVars>>

(***************************************************************************)
(* Bounds of the model.                                                    *)
(***************************************************************************)
\* most sites in the list of centers
MaxSites == 2
\* centers (and the reference) are drawn from -MaxCenter .. MaxCenter
MaxCenter == 1
\* widths are drawn from 0 .. MaxWidth
MaxWidth == 3
\* grid steps are drawn from 1 .. MaxDx
MaxDx == 2
\* extents are drawn from 1 .. MaxXmax
MaxXmax == 5

(***************************************************************************)
(* Helpers shared by the functions.                                        *)
(***************************************************************************)
\* every sequence over S of length lo .. hi
SeqsOf(S, lo, hi) == UNION {[1..n -> S] : n \in lo..hi}

\* the largest element of a non-empty set of integers (np.max)
SetMax(S) == CHOOSE m \in S : \A y \in S : y <= m

\* the smallest element of a non-empty set of integers (np.min)
SetMin(S) == CHOOSE m \in S : \A y \in S : m <= y

\* the absolute value (np.abs on an integer)
Abs(n) == IF n < 0 THEN -n ELSE n

(***************************************************************************)
(* get_1d_plant                                                            *)
(*                                                                         *)
(* Positions are integers.  A density is held doubled (plant[i] is twice   *)
(* the density at x_vec[i]) so that center - w/2 and the ramp              *)
(* x - center + w/2 stay integers when w is odd.  A Gaussian bump cannot   *)
(* be evaluated over the integers: bumps[i] lists, in placing order, the   *)
(* squared distances (x_vec[i] - center)^2 of the bumps added at           *)
(* position i, so the density there is the sum of                          *)
(* exp(-d / (2 (w/2.355)^2)) over the d of bumps[i].                       *)
(***************************************************************************)
\* the letters str.lower() changes among those the tags are written in
UpperCase == <<"A", "C", "E", "G", "I", "L", "N", "Q", "R", "S", "T", "U">>

LowerCase == <<"a", "c", "e", "g", "i", "l", "n", "q", "r", "s", "t", "u">>

\* str.lower() on one character
LowerChar(ch) ==
    IF \E n \in 1..Len(UpperCase) : UpperCase[n] = ch
    THEN LowerCase[CHOOSE n \in 1..Len(UpperCase) : UpperCase[n] = ch]
    ELSE ch

\* str.lower()
Lower(s) == [n \in 1..Len(s) |-> LowerChar(s[n])]

SquareTag == <<"s", "q", "u", "a", "r", "e">>

TriangleTag == <<"t", "r", "i", "a", "n", "g", "l", "e">>

GaussianTag == <<"g", "a", "u", "s", "s", "i", "a", "n">>

\* the shape tags the callers of the model pass
ShapeTags ==
    { SquareTag, TriangleTag, GaussianTag,
      <<"S", "q", "u", "a", "r", "e">>,
      <<"S", "Q", "U", "A", "R", "E">>,
      <<"T", "r", "i", "a", "n", "g", "l", "e">>,
      <<"t", "r", "i", "A", "N", "G", "L", "E">>,
      <<"G", "A", "U", "S", "S", "I", "A", "N">>,
      <<"g", "a", "u", "s", "s", "i", "a", "N">>,
      <<"c", "i", "r", "c", "l", "e">>,
      <<"s", "q", "u", "a", "r", "e", "s">>,
      <<"s", "q", "u", "a", "r">>,
      <<"t", "r", "i", "a", "n", "g", "l", "e", "_">>,
      <<"G", "a", "u", "s", "s">>,
      <<>> }

\* np.arange(start, stop, step) for a positive integer step
Arange(start, stop, step) ==
    LET n == IF stop > start THEN (stop - start + step - 1) \div step ELSE 0
    IN  [i \in 1..n |-> start + (i - 1) * step]

\* the first position with the division done before the negation: -(xmax//2)
GridStartTruncated(xm) == -(xm \div 2)

\* the first position of the grid: -xmax//2
GridStart(xm) == (-xm) \div 2

\* the end of the grid (excluded): xmax//2
GridStop(xm) == xm \div 2

\* the span with its upper end included: x_vec <= (center + w / 2)
InSpanClosed(x, center, wd) == 2 * x >= 2 * center - wd /\ 2 * x <= 2 * center + wd

\* np.bitwise_and(x_vec >= (center - w / 2), x_vec < (center + w / 2)) at x
InSpan(x, center, wd) == 2 * x >= 2 * center - wd /\ 2 * x < 2 * center + wd

\* the dispatch on the tag as given, without shape.lower()
DispatchExact(tag) ==
    IF tag = SquareTag THEN "square"
    ELSE IF tag = TriangleTag THEN "triangle"
    ELSE IF tag = GaussianTag THEN "gaussian"
    ELSE "raise"

\* the branch the shape tag selects
Dispatch(tag) ==
    IF Lower(tag) = SquareTag THEN "square"
    ELSE IF Lower(tag) = TriangleTag THEN "triangle"
    ELSE IF Lower(tag) = GaussianTag THEN "gaussian"
    ELSE "raise"

\* plant[inds] = 1, on the doubled density
SquarePlace(p, xs, center, wd) ==
    [i \in 1..Len(p) |-> IF InSpan(xs[i], center, wd) THEN 2 ELSE p[i]]

\* the ramp added to the density in place: plant[inds] += ...
TrianglePlaceSum(p, xs, center, wd) ==
    [i \in 1..Len(p) |->
        IF InSpan(xs[i], center, wd)
        THEN p[i] + 2 * xs[i] - 2 * center + wd ELSE p[i]]

\* plant[inds] = x_vec[inds] - center+w/2, on the doubled density
TrianglePlace(p, xs, center, wd) ==
    [i \in 1..Len(p) |->
        IF InSpan(xs[i], center, wd) THEN 2 * xs[i] - 2 * center + wd ELSE p[i]]

\* plant += np.exp(-(x_vec-center)**2/(2*(w/2.355)**2)), as the list of bumps
GaussianPlace(b, xs, center) ==
    [i \in 1..Len(b) |-> Append(b[i], (xs[i] - center) * (xs[i] - center))]

\* the tags the layouts are varied under
LayoutTags ==
    {SquareTag, TriangleTag, GaussianTag, <<"T", "R", "I", "A", "N", "G", "L", "E">>}

\* the arguments: every layout within the bounds under a supported tag, every
\* tag on the layouts of at most one site, and the single site example of
\* the specification (one center at 0, dx = 1, xmax = 100)
PlantArgs ==
    \/ /\ shape \in LayoutTags
       /\ centers \in SeqsOf(-MaxCenter..MaxCenter, 0, MaxSites)
       /\ ref_center \in {0, 1}
       /\ width \in {{}} \cup {{v} : v \in 0..MaxWidth}
       /\ dx \in 1..MaxDx
       /\ xmax \in 1..MaxXmax
    \/ /\ shape \in ShapeTags
       /\ centers \in SeqsOf(-MaxCenter..MaxCenter, 0, 1)
       /\ ref_center = 0
       /\ width = {}
       /\ dx = 1
       /\ xmax \in 1..MaxXmax
    \/ /\ shape = SquareTag
       /\ centers = <<0>>
       /\ ref_center = 0
       /\ width \in {{v} : v \in 0..MaxWidth}
       /\ dx = 1
       /\ xmax = 100

InitPlant ==
    /\ PlantArgs
    /\ w = 0
    /\ x_vec = <<>>
    /\ plant = <<>>
    /\ bumps = <<>>
    /\ placed = 0
    /\ pc_plant = "call"

\* lines 213-247: the width, the re-centering, the empty plant, the dispatch
PlantSetup ==
    /\ pc_plant = "call"
    /\ w' = IF width = {} THEN dx ELSE CHOOSE v \in width : TRUE
    /\ centers' = [j \in 1..Len(centers) |-> centers[j] - ref_center]
    /\ x_vec' = Arange(GridStart(xmax), GridStop(xmax), dx)
    /\ plant' = [i \in 1..Len(x_vec') |-> 0]
    /\ bumps' = [i \in 1..Len(x_vec') |-> <<>>]
    /\ pc_plant' = Dispatch(shape)
    /\ UNCHANGED <<shape, ref_center, width, dx, xmax, placed>>
    /\ UNCHANGED notPlant

\* one iteration of the loop of the square branch
PlaceSquare ==
    /\ pc_plant = "square"
    /\ placed < Len(centers)
    /\ plant' = SquarePlace(plant, x_vec, centers[placed + 1], w)
    /\ placed' = placed + 1
    /\ UNCHANGED <<shape, centers, ref_center, width, dx, xmax, w, x_vec,
                   bumps, pc_plant>>
    /\ UNCHANGED notPlant

\* one iteration of the loop of the triangle branch
PlaceTriangle ==
    /\ pc_plant = "triangle"
    /\ placed < Len(centers)
    /\ plant' = TrianglePlace(plant, x_vec, centers[placed + 1], w)
    /\ placed' = placed + 1
    /\ UNCHANGED <<shape, centers, ref_center, width, dx, xmax, w, x_vec,
                   bumps, pc_plant>>
    /\ UNCHANGED notPlant

\* one iteration of the loop of the gaussian branch
PlaceGaussian ==
    /\ pc_plant = "gaussian"
    /\ placed < Len(centers)
    /\ bumps' = GaussianPlace(bumps, x_vec, centers[placed + 1])
    /\ placed' = placed + 1
    /\ UNCHANGED <<shape, centers, ref_center, width, dx, xmax, w, x_vec,
                   plant, pc_plant>>
    /\ UNCHANGED notPlant

\* return plant, x_vec
PlantReturn ==
    /\ pc_plant \in {"square", "triangle", "gaussian"}
    /\ placed = Len(centers)
    /\ pc_plant' = "return"
    /\ UNCHANGED <<shape, centers, ref_center, width, dx, xmax, w, x_vec,
                   plant, bumps, placed>>
    /\ UNCHANGED notPlant

NextPlant ==
    PlantSetup \/ PlaceSquare \/ PlaceTriangle \/ PlaceGaussian \/ PlantReturn

\* the state of get_1d_plant when another function is the one called
IdlePlant ==
    /\ shape = <<>>
    /\ centers = <<>>
    /\ ref_center = 0
    /\ width = {}
    /\ dx = 1
    /\ xmax = 1
    /\ w = 0
    /\ x_vec = <<>>
    /\ plant = <<>>
    /\ bumps = <<>>
    /\ placed = 0
    /\ pc_plant = "idle"

(***************************************************************************)
(* cleanfreq                                                               *)
(*                                                                         *)
(* An index element is {f} for the frequency f and {} for None.            *)
(***************************************************************************)
\* most elements of a spectrum given to cleanfreq
MaxIndexLen == 4

\* the frequencies and the data values of the spectra given to cleanfreq
CleanFreqs == -1..1

CleanData == 0..1

\* the middle taken as (len(sig.index) - 1) // 2
MiddlePositionLow(n) == (n - 1) \div 2 + 1

\* the position assigned to, as a position of a sequence that starts at 1:
\* idxlist[len(sig.index) // 2]
MiddlePosition(n) == n \div 2 + 1

\* idxlist[len(sig.index) // 2] = None
CleanIndex(idx) == [idx EXCEPT ![MiddlePosition(Len(idx))] = {}]

InitClean ==
    /\ \E n \in 0..MaxIndexLen :
          /\ sig_index \in [1..n -> {{}} \cup {{f} : f \in CleanFreqs}]
          /\ sig_data \in [1..n -> CleanData]
    /\ ret_clean = "unset"
    /\ pc_clean = "call"

\* lines 431-433 on a spectrum that has a middle element; no return statement
CleanFreqAssign ==
    /\ pc_clean = "call"
    /\ MiddlePosition(Len(sig_index)) <= Len(sig_index)
    /\ sig_index' = CleanIndex(sig_index)
    /\ ret_clean' = "None"
    /\ pc_clean' = "done"
    /\ UNCHANGED sig_data
    /\ UNCHANGED notClean

\* line 432 on an empty spectrum: list assignment index out of range
CleanFreqIndexError ==
    /\ pc_clean = "call"
    /\ MiddlePosition(Len(sig_index)) > Len(sig_index)
    /\ pc_clean' = "IndexError"
    /\ UNCHANGED <<sig_index, sig_data, ret_clean>>
    /\ UNCHANGED notClean

NextClean == CleanFreqAssign \/ CleanFreqIndexError

IdleClean ==
    /\ sig_index = <<>>
    /\ sig_data = <<>>
    /\ ret_clean = "unset"
    /\ pc_clean = "idle"

(***************************************************************************)
(* averaged_psd and averaged_tf                                            *)
(*                                                                         *)
(* The estimators of scipy.signal are outside the module: est_calls lists  *)
(* the calls made to them, with the arguments that segment the signal.     *)
(* The overlap fraction is the rational overlap[1] / overlap[2].           *)
(***************************************************************************)
\* longest signal given to the estimators
MaxSigLen == 5
\* navgs is drawn from 1 .. MaxNavgs
MaxNavgs == 6
\* the overlap fractions are k / d for d in 1 .. MaxOverlapDen, 0 <= k <= d
MaxOverlapDen == 3

\* int(len(input_tsig) // navgs)
Nperseg(n, avgs) == n \div avgs

\* the overlap rounded up instead of cut by int()
NoverlapRoundedUp(seg, ov) == (seg * ov[1] + ov[2] - 1) \div ov[2]

\* int(nperseg * overlap)
Noverlap(seg, ov) == (seg * ov[1]) \div ov[2]

\* one call of scipy.signal
EstCall(est, n, avgs, ov, win, det, scl) ==
    [est |-> est, nperseg |-> Nperseg(n, avgs),
     noverlap |-> Noverlap(Nperseg(n, avgs), ov),
     window |-> win, detrend |-> det, scaling |-> scl]

InitSeg ==
    /\ seg_fn \in {"averaged_psd", "averaged_tf"}
    /\ tsig_len \in 0..MaxSigLen
    /\ navgs \in 1..MaxNavgs
    /\ overlap \in {<<k, d>> : k \in 0..MaxOverlapDen, d \in 1..MaxOverlapDen}
    /\ overlap[1] <= overlap[2]
    /\ window \in {"hanning", "boxcar"}
    /\ detrend \in {"linear", "constant"}
    /\ scaling \in {"density", "spectrum"}
    /\ seg_fn = "averaged_tf" => scaling = "density"
    /\ nperseg = 0
    /\ noverlap = 0
    /\ est_calls = <<>>
    /\ pc_seg = "call"

\* lines 45-46 and 95-96: dt from the first two index values
SegDt ==
    /\ pc_seg = "call"
    /\ tsig_len >= 2
    /\ pc_seg' = IF seg_fn = "averaged_tf" THEN "segment" ELSE "psd"
    /\ UNCHANGED <<seg_fn, tsig_len, navgs, overlap, window, detrend,
                   scaling, nperseg, noverlap, est_calls>>
    /\ UNCHANGED notSeg

\* input_tsig.index[1] on a signal of fewer than two samples
SegIndexError ==
    /\ pc_seg = "call"
    /\ tsig_len < 2
    /\ pc_seg' = "IndexError"
    /\ UNCHANGED <<seg_fn, tsig_len, navgs, overlap, window, detrend,
                   scaling, nperseg, noverlap, est_calls>>
    /\ UNCHANGED notSeg

\* lines 98-99 of averaged_tf
TfSegment ==
    /\ pc_seg = "segment"
    /\ nperseg' = Nperseg(tsig_len, navgs)
    /\ noverlap' = Noverlap(nperseg', overlap)
    /\ pc_seg' = "psd"
    /\ UNCHANGED <<seg_fn, tsig_len, navgs, overlap, window, detrend,
                   scaling, est_calls>>
    /\ UNCHANGED notSeg

\* lines 45-54: averaged_psd, called directly or at lines 102-103 with
\* scaling='density'; it segments the signal itself and calls signal.welch
PsdWelch ==
    /\ pc_seg = "psd"
    /\ est_calls' = Append(est_calls,
           EstCall("welch", tsig_len, navgs, overlap, window, detrend,
                   IF seg_fn = "averaged_tf" THEN "density" ELSE scaling))
    /\ pc_seg' = IF seg_fn = "averaged_tf" THEN "csd" ELSE "done"
    /\ UNCHANGED <<seg_fn, tsig_len, navgs, overlap, window, detrend,
                   scaling, nperseg, noverlap>>
    /\ UNCHANGED notSeg

\* lines 104-107: signal.csd with averaged_tf's nperseg and noverlap
TfCsd ==
    /\ pc_seg = "csd"
    /\ est_calls' = Append(est_calls,
           [est |-> "csd", nperseg |-> nperseg, noverlap |-> noverlap,
            window |-> window, detrend |-> detrend, scaling |-> "default"])
    /\ pc_seg' = "coherence"
    /\ UNCHANGED <<seg_fn, tsig_len, navgs, overlap, window, detrend,
                   scaling, nperseg, noverlap>>
    /\ UNCHANGED notSeg

\* lines 110-116: signal.coherence with the same arguments
TfCoherence ==
    /\ pc_seg = "coherence"
    /\ est_calls' = Append(est_calls,
           [est |-> "coherence", nperseg |-> nperseg, noverlap |-> noverlap,
            window |-> window, detrend |-> detrend, scaling |-> "default"])
    /\ pc_seg' = "done"
    /\ UNCHANGED <<seg_fn, tsig_len, navgs, overlap, window, detrend,
                   scaling, nperseg, noverlap>>
    /\ UNCHANGED notSeg

NextSeg ==
    SegDt \/ SegIndexError \/ TfSegment \/ PsdWelch \/ TfCsd \/ TfCoherence

IdleSeg ==
    /\ seg_fn = "none"
    /\ tsig_len = 0
    /\ navgs = 1
    /\ overlap = <<0, 1>>
    /\ window = "hanning"
    /\ detrend = "linear"
    /\ scaling = "density"
    /\ nperseg = 0
    /\ noverlap = 0
    /\ est_calls = <<>>
    /\ pc_seg = "idle"

(***************************************************************************)
(* plant1d_to_camfilter                                                    *)
(*                                                                         *)
(* A value of the filter is a sum of unit phasors over a denominator:      *)
(* with D = n dx the value [coef, den] stands for                          *)
(*     (SUM over t of coef[t + 1] exp(2 pi i t / D)) / den,                *)
(* which holds the discrete Fourier transform, the phase shift (the        *)
(* product camfreq t_delay is a multiple of 1/D of a turn on a grid of     *)
(* integer positions) and the conjugate exactly.  den = 0 is the division  *)
(* by a zero sum.  A frequency is the rational num / den.                  *)
(***************************************************************************)
\* longest plant given to plant1d_to_camfilter
MaxPlantLen == 3
\* densities are drawn from 0 .. MaxDensity
MaxDensity == 2
\* cloud speeds are drawn from -MaxSpeed .. MaxSpeed without 0
MaxSpeed == 2
\* the first position of a plant is drawn from -MaxOrigin .. 0
MaxOrigin == 2

RECURSIVE SumSeq(_)
\* np.sum of a sequence of integers
SumSeq(q) == IF q = <<>> THEN 0 ELSE q[1] + SumSeq(Tail(q))

\* the set of the elements of a sequence
Range(q) == {q[i] : i \in 1..Len(q)}

\* np.fft.fftfreq(n, d) in units of 1 / (n d): the signed number of each bin
Fftfreq(n) ==
    [i \in 1..n |-> IF i - 1 <= (n - 1) \div 2 THEN i - 1 ELSE i - 1 - n]

\* the sum of the entries of p whose phasor is at t of D of a turn in bin k
FftCoef(p, step, k, t) ==
    LET D == Len(p) * step
    IN  SumSeq([m \in 1..Len(p) |->
            IF (-(k * (m - 1) * step)) % D = t THEN p[m] ELSE 0])

\* the plant left as it is, not divided by its sum
NormalizerOmitted(p) == 1

\* plant / np.sum(plant): the sum the plant is divided by
Normalizer(p) == SumSeq(p)

\* np.fft.fft(plant / np.sum(plant)), bin k counted from 0
FftBin(p, step, k) ==
    [coef |-> [t \in 1..(Len(p) * step) |-> FftCoef(p, step, k, t - 1)],
     den |-> Normalizer(p)]

\* value * np.exp(1j * 2 pi * turns / D)
Rotate(value, turns) ==
    LET D == Len(value.coef)
    IN  [value EXCEPT !.coef = [t \in 1..D |-> value.coef[((t - 1 - turns) % D) + 1]]]

\* np.conj(value)
Conj(value) ==
    LET D == Len(value.coef)
    IN  [value EXCEPT !.coef = [t \in 1..D |-> value.coef[((-(t - 1)) % D) + 1]]]

\* camfreq * delay in units of 1 / D of a turn, for the bin numbered kk:
\* camfreq = kk |speed| / (n dx) and delay = xmin / dspeed
DelayTurns(kk, speed, xmin, dspeed) == (kk * Abs(speed) * xmin) \div dspeed

\* lines 286-291 on one bin: the phase shift, conjugated for a negative speed
ShiftBin(value, kk, speed, xmin) ==
    IF speed > 0
    THEN Rotate(value, DelayTurns(kk, speed, xmin, speed))
    ELSE Conj(Rotate(value, DelayTurns(kk, speed, xmin, -speed)))

InitCam ==
    /\ \E n \in 1..MaxPlantLen, x0 \in (-MaxOrigin)..0, step \in 1..MaxDx :
          /\ cam_plant \in [1..n -> 0..MaxDensity]
          /\ x_plant = [i \in 1..n |-> x0 + (i - 1) * step]
    /\ cloud_speed \in ((-MaxSpeed)..MaxSpeed) \ {0}
    /\ camfilt = <<>>
    /\ camfreq = <<>>
    /\ pc_cam = "call"

\* lines 277-282: dx, the normalized plant, its transform and its frequencies
CamTransform ==
    /\ pc_cam = "call"
    /\ Len(x_plant) >= 2
    /\ LET step == x_plant[2] - x_plant[1]
           n == Len(cam_plant)
       IN  /\ camfilt' = [k \in 1..n |-> FftBin(cam_plant, step, k - 1)]
           /\ camfreq' = [k \in 1..n |->
                            [num |-> Fftfreq(n)[k] * Abs(cloud_speed),
                             den |-> n * step]]
    /\ pc_cam' = "shift"
    /\ UNCHANGED <<cam_plant, x_plant, cloud_speed>>
    /\ UNCHANGED notCam

\* x_plant[1] on a plant of one position
CamIndexError ==
    /\ pc_cam = "call"
    /\ Len(x_plant) < 2
    /\ pc_cam' = "IndexError"
    /\ UNCHANGED <<cam_plant, x_plant, cloud_speed, camfilt, camfreq>>
    /\ UNCHANGED notCam

\* lines 285-292: the phase shift of every bin
CamShift ==
    /\ pc_cam = "shift"
    /\ camfilt' = [k \in 1..Len(camfilt) |->
                     ShiftBin(camfilt[k], Fftfreq(Len(camfilt))[k],
                              cloud_speed, SetMin(Range(x_plant)))]
    /\ pc_cam' = "done"
    /\ UNCHANGED <<cam_plant, x_plant, cloud_speed, camfreq>>
    /\ UNCHANGED notCam

NextCam == CamTransform \/ CamIndexError \/ CamShift

IdleCam ==
    /\ cam_plant = <<>>
    /\ x_plant = <<>>
    /\ cloud_speed = 1
    /\ camfilt = <<>>
    /\ camfreq = <<>>
    /\ pc_cam = "idle"

(***************************************************************************)
(* interp_tf                                                               *)
(*                                                                         *)
(* A complex value is held in polar form, [mag, ang], as np.abs and        *)
(* np.angle read it: ang counts steps of 1/Turn of a full turn and lies in *)
(* (-Turn/2, Turn/2], and the value 0 has the angle 0.  An interpolated    *)
(* value is the rational polar form [mag, ang, den]: the magnitude         *)
(* mag / den and the phase ang / den steps, which is what                  *)
(* interp_mag * np.exp(1j * interp_phase) is built from.                   *)
(***************************************************************************)
\* most rows of a transfer function
MaxRows == 3
\* most columns of a DataFrame
MaxCols == 2
\* most values (rows times columns) of a transfer function
MaxCells == 4

\* the steps of the angle: quarter turns
Angles == -1..2

Turn == Cardinality(Angles)

\* the frequencies a transfer function is indexed by
TfFreqs == {-1, 0, 1, 3}

\* the values of a transfer function
TfCells ==
    {[mag |-> 0, ang |-> 0], [mag |-> 1, ang |-> -1], [mag |-> 1, ang |-> 2],
     [mag |-> 2, ang |-> 0], [mag |-> 2, ang |-> 1]}

\* index.argsort() of distinct frequencies: the row that holds the i-th
\* lowest frequency
Argsort(idx) ==
    [i \in 1..Len(idx) |->
        CHOOSE j \in 1..Len(idx) :
            Cardinality({k \in 1..Len(idx) : idx[k] < idx[j]}) = i - 1]

\* the rows of q in the order of the permutation
Take(q, perm) == [i \in 1..Len(perm) |-> q[perm[i]]]

\* the correction with the step folded into [0, Turn) and not [-Turn/2, Turn/2)
PhCorrectUnshifted(dd) ==
    LET half == Turn \div 2
    IN  IF Abs(dd) < half THEN 0 ELSE ((dd % Turn) - half) - dd

\* the correction np.unwrap adds after a step of dd between two angles
PhCorrect(dd) ==
    LET half == Turn \div 2
        m == ((dd + half) % Turn) - half
        ddmod == IF m = -half /\ dd > 0 THEN half ELSE m
    IN  IF Abs(dd) < half THEN 0 ELSE ddmod - dd

RECURSIVE Unwrap(_)
\* np.unwrap of a sequence of angles
Unwrap(ph) ==
    IF Len(ph) <= 1 THEN ph
    ELSE LET n == Len(ph)
             head == Unwrap(SubSeq(ph, 1, n - 1))
             cum == head[n - 1] - ph[n - 1]
         IN  Append(head, ph[n] + cum + PhCorrect(ph[n] - ph[n - 1]))

\* np.searchsorted(x, v) clipped to 1 .. len(x) - 1, as the position of the
\* upper knot in a sequence that starts at 1
UpperKnot(x, v) ==
    LET below == Cardinality({k \in 1..Len(x) : x[k] < v})
        clipped == IF below < 1 THEN 1
                   ELSE IF below > Len(x) - 1 THEN Len(x) - 1 ELSE below
    IN  clipped + 1

\* interp1d(x, y)(v) for sorted x, as the numerator over x_hi - x_lo:
\* slope * (v - x_lo) + y_lo
Linear(x, y, v) ==
    LET hi == UpperKnot(x, v)
        lo == hi - 1
    IN  [num |-> (y[hi] - y[lo]) * (v - x[lo]) + y[lo] * (x[hi] - x[lo]),
         den |-> x[hi] - x[lo]]

\* whether interp1d raises: a new frequency outside the range of x
OutOfRange(x, freqs) ==
    \E i \in 1..Len(freqs) : freqs[i] < SetMin(Range(x)) \/ freqs[i] > SetMax(Range(x))

\* lines 139-161 for column c at the frequency v
InterpValue(idx, vals, c, v) ==
    LET sortinds == Argsort(idx)
        x == Take(idx, sortinds)
        rows == Take(vals, sortinds)
        mags == [r \in 1..Len(rows) |-> rows[r][c].mag]
        phase == Unwrap([r \in 1..Len(rows) |-> rows[r][c].ang])
    IN  [mag |-> Linear(x, mags, v).num,
         ang |-> Linear(x, phase, v).num,
         den |-> Linear(x, mags, v).den]

\* lines 139-169: the interpolated transfer function, of the type of the input
InterpTf(kind, idx, vals, freqs) ==
    [kind |-> kind,
     index |-> freqs,
     rows |-> [i \in 1..Len(freqs) |->
                 [c \in 1..Len(vals[1]) |-> InterpValue(idx, vals, c, freqs[i])]]]

\* the sequences of distinct elements of S of length n
Distinct(S, n) == {q \in [1..n -> S] : \A i, j \in 1..n : i # j => q[i] # q[j]}

\* the frequencies asked for: the own axis sorted, the own axis as it is, a
\* frequency beyond the last one
NewFreqs(idx) ==
    {Take(idx, Argsort(idx)), idx, <<SetMax(Range(idx)) + 1>>}

InitInterp ==
    /\ tf_kind \in {"Series", "DataFrame"}
    /\ \E r \in 2..MaxRows, c \in 1..MaxCols :
          /\ r * c <= MaxCells
          /\ tf_kind = "Series" => c = 1
          /\ tf_index \in Distinct(TfFreqs, r)
          /\ tf_values \in [1..r -> [1..c -> TfCells]]
    /\ new_freq \in NewFreqs(tf_index)
    /\ interp_filt = [kind |-> "unset", index |-> <<>>, rows |-> <<>>]
    /\ pc_interp = "call"

\* lines 139-169 when new_freq lies within the frequencies of input_tf
InterpDone ==
    /\ pc_interp = "call"
    /\ ~OutOfRange(tf_index, new_freq)
    /\ interp_filt' = InterpTf(tf_kind, tf_index, tf_values, new_freq)
    /\ pc_interp' = "done"
    /\ UNCHANGED <<tf_kind, tf_index, tf_values, new_freq>>
    /\ UNCHANGED notInterp

\* line 149: interp1d raises on a new frequency outside its range
InterpRaise ==
    /\ pc_interp = "call"
    /\ OutOfRange(tf_index, new_freq)
    /\ pc_interp' = "ValueError"
    /\ UNCHANGED <<tf_kind, tf_index, tf_values, new_freq, interp_filt>>
    /\ UNCHANGED notInterp

NextInterp == InterpDone \/ InterpRaise

IdleInterp ==
    /\ tf_kind = "Series"
    /\ tf_index = <<>>
    /\ tf_values = <<>>
    /\ new_freq = <<>>
    /\ interp_filt = [kind |-> "unset", index |-> <<>>, rows |-> <<>>]
    /\ pc_interp = "idle"

(***************************************************************************)
(* apply_filter                                                            *)
(*                                                                         *)
(* Frequencies are counted in units of the bin spacing 1 / (N dt) of the   *)
(* signal.  The transform of the signal is outside the module:             *)
(* filtered_fft[k] is the value of the interpolated filter that            *)
(* input_fft[k] is multiplied by.                                          *)
(***************************************************************************)
\* longest signal given to apply_filter
MaxInputLen == 5
\* most frequencies of a filter
MaxFilterLen == 3
\* the frequencies of a filter are drawn from -MaxFilterFreq .. MaxFilterFreq
MaxFilterFreq == 2

\* the values of a filter
FilterCells == {[mag |-> 1, ang |-> 0], [mag |-> 1, ang |-> 2]}

\* line 319: np.max(f_vec) > np.max(comp_filt.index)
CoverageFails(fv, idx) == SetMax(Range(fv)) > SetMax(Range(idx))

InitFilter ==
    /\ input_len \in 0..MaxInputLen
    /\ \E n \in 2..MaxFilterLen :
          /\ comp_index \in Distinct((-MaxFilterFreq)..MaxFilterFreq, n)
          /\ comp_values \in [1..n -> [1..1 -> FilterCells]]
    /\ f_vec = <<>>
    /\ applied_filt = [kind |-> "unset", index |-> <<>>, rows |-> <<>>]
    /\ filtered_fft = <<>>
    /\ pc_filter = "call"

\* lines 315-317: dt, the transform of the signal and its frequencies
FilterFft ==
    /\ pc_filter = "call"
    /\ input_len >= 2
    /\ f_vec' = Fftfreq(input_len)
    /\ pc_filter' = "check"
    /\ UNCHANGED <<input_len, comp_index, comp_values, applied_filt, filtered_fft>>
    /\ UNCHANGED notFilter

\* input_tsig.index[1] on a signal of fewer than two samples
FilterIndexError ==
    /\ pc_filter = "call"
    /\ input_len < 2
    /\ pc_filter' = "IndexError"
    /\ UNCHANGED <<input_len, comp_index, comp_values, f_vec, applied_filt,
                   filtered_fft>>
    /\ UNCHANGED notFilter

\* lines 319-322: the coverage check
FilterCheck ==
    /\ pc_filter = "check"
    /\ pc_filter' = IF CoverageFails(f_vec, comp_index)
                    THEN "CoverageError" ELSE "interp"
    /\ UNCHANGED <<input_len, comp_index, comp_values, f_vec, applied_filt,
                   filtered_fft>>
    /\ UNCHANGED notFilter

\* line 325: interp_tf(f_vec, comp_filt) within the frequencies of the filter
FilterInterp ==
    /\ pc_filter = "interp"
    /\ ~OutOfRange(comp_index, f_vec)
    /\ applied_filt' = InterpTf("Series", comp_index, comp_values, f_vec)
    /\ pc_filter' = "multiply"
    /\ UNCHANGED <<input_len, comp_index, comp_values, f_vec, filtered_fft>>
    /\ UNCHANGED notFilter

\* line 325: interp_tf raises inside interp1d on a bin outside the filter
FilterInterpRaise ==
    /\ pc_filter = "interp"
    /\ OutOfRange(comp_index, f_vec)
    /\ pc_filter' = "ValueError"
    /\ UNCHANGED <<input_len, comp_index, comp_values, f_vec, applied_filt,
                   filtered_fft>>
    /\ UNCHANGED notFilter

\* lines 328-333: the multiplication and the inverse transform
FilterMultiply ==
    /\ pc_filter = "multiply"
    /\ filtered_fft' = [k \in 1..Len(f_vec) |-> applied_filt.rows[k][1]]
    /\ pc_filter' = "done"
    /\ UNCHANGED <<input_len, comp_index, comp_values, f_vec, applied_filt>>
    /\ UNCHANGED notFilter

NextFilter ==
    \/ FilterFft
    \/ FilterIndexError
    \/ FilterCheck
    \/ FilterInterp
    \/ FilterInterpRaise
    \/ FilterMultiply

IdleFilter ==
    /\ input_len = 0
    /\ comp_index = <<>>
    /\ comp_values = <<>>
    /\ f_vec = <<>>
    /\ applied_filt = [kind |-> "unset", index |-> <<>>, rows |-> <<>>]
    /\ filtered_fft = <<>>
    /\ pc_filter = "idle"

(***************************************************************************)
(* The specifications: one function is called, the others are idle.        *)
(***************************************************************************)
StartPlant == InitPlant /\ IdleClean /\ IdleSeg /\ IdleCam /\ IdleInterp /\ IdleFilter

SpecPlant == StartPlant /\ [][NextPlant]_vars

StartClean == IdlePlant /\ InitClean /\ IdleSeg /\ IdleCam /\ IdleInterp /\ IdleFilter

SpecClean == StartClean /\ [][NextClean]_vars

StartSeg == IdlePlant /\ IdleClean /\ InitSeg /\ IdleCam /\ IdleInterp /\ IdleFilter

SpecSeg == StartSeg /\ [][NextSeg]_vars

StartCam == IdlePlant /\ IdleClean /\ IdleSeg /\ InitCam /\ IdleInterp /\ IdleFilter

SpecCam == StartCam /\ [][NextCam]_vars

StartInterp == IdlePlant /\ IdleClean /\ IdleSeg /\ IdleCam /\ InitInterp /\ IdleFilter

SpecInterp == StartInterp /\ [][NextInterp]_vars

StartFilter == IdlePlant /\ IdleClean /\ IdleSeg /\ IdleCam /\ IdleInterp /\ InitFilter

SpecFilter == StartFilter /\ [][NextFilter]_vars

(***************************************************************************)
(* The properties.                                                         *)
(***************************************************************************)

\* whether a position lies in the half-open span [c - wd/2, c + wd/2)
InHalfOpenSpan(x, c, wd) == 2 * c - wd <= 2 * x /\ 2 * x < 2 * c + wd

\* C1: a square plant has density 1 (plant = 2) at every position that lies
\* in the half-open span [c - w/2, c + w/2) of at least one re-centered
\* site c and density 0 elsewhere; one center at 0 with dx = 1 and
\* xmax = 100 gives density 1 exactly on the positions in [-w/2, w/2).
C1_SquareIndicator ==
    (pc_plant = "return" /\ Lower(shape) = SquareTag) =>
        /\ Len(plant) = Len(x_vec)
        /\ \A i \in 1..Len(x_vec) :
              plant[i] = IF \E j \in 1..Len(centers) :
                                InHalfOpenSpan(x_vec[i], centers[j], w)
                         THEN 2 ELSE 0
        /\ (xmax = 100 /\ dx = 1 /\ centers = <<0>>) =>
              /\ x_vec = [i \in 1..100 |-> i - 51]
              /\ \A i \in 1..100 :
                    plant[i] = IF -w <= 2 * (i - 51) /\ 2 * (i - 51) < w
                               THEN 2 ELSE 0

\* a square plant of two sites whose spans overlap, with a position in both
\* spans, a position in one span only and a position in none
C1_Witness ==
    /\ pc_plant = "return"
    /\ Lower(shape) = SquareTag
    /\ Len(centers) = 2
    /\ centers[1] # centers[2]
    /\ \E i \in 1..Len(x_vec) :
          /\ InHalfOpenSpan(x_vec[i], centers[1], w)
          /\ InHalfOpenSpan(x_vec[i], centers[2], w)
    /\ \E i \in 1..Len(x_vec) :
          /\ InHalfOpenSpan(x_vec[i], centers[1], w)
          /\ ~InHalfOpenSpan(x_vec[i], centers[2], w)
    /\ \E i \in 1..Len(x_vec) : plant[i] = 0

\* whether the tag is the lower case tag but for the case of its letters
SameButCase(tag, lowered) ==
    /\ Len(tag) = Len(lowered)
    /\ \A n \in 1..Len(tag) :
          \/ tag[n] = lowered[n]
          \/ \E m \in 1..Len(UpperCase) :
                UpperCase[m] = tag[n] /\ LowerCase[m] = lowered[n]

\* whether the tag is, in any letter case, square, triangle or gaussian
Supported(tag) ==
    \E t \in {SquareTag, TriangleTag, GaussianTag} : SameButCase(tag, t)

\* C3: get_1d_plant raises the ValueError for every shape tag that is not,
\* case-insensitively, square, triangle or gaussian, and then returns no
\* plant; for the three supported tags, in any letter case, it does not raise.
C3_ConfigurationError ==
    /\ pc_plant # "call" => (pc_plant = "raise" <=> ~Supported(shape))
    /\ pc_plant = "return" => Supported(shape)

\* the call with the tag "squares" has raised
C3_Witness ==
    /\ pc_plant = "raise"
    /\ shape = <<"s", "q", "u", "a", "r", "e", "s">>

\* whether x_vec is a grid of step dx, below xmax/2, as long as the plant
UniformGrid ==
    /\ Len(x_vec) >= 1
    /\ \A i \in 1..(Len(x_vec) - 1) : x_vec[i + 1] = x_vec[i] + dx
    /\ \A i \in 1..Len(x_vec) : 2 * x_vec[i] < xmax
    /\ Len(x_vec) = Len(plant)

\* C8, with the start at -xmax/2: the grid starts at -xmax/2, is strictly
\* increasing with the uniform step dx, lies below +xmax/2 and is as long as
\* the density.
C8_GridFromHalfXmax ==
    pc_plant # "call" => (UniformGrid /\ 2 * x_vec[1] = -xmax)

\* C8, with the start at -xmax//2: the grid starts at floor(-xmax/2), the largest integer
\* that is not above -xmax/2 (which is -xmax/2 only for an even xmax); it is
\* strictly increasing with the uniform step dx, lies below +xmax/2 and is
\* as long as the density.
C8_GridFromFloor ==
    pc_plant # "call" =>
        /\ UniformGrid
        /\ 2 * x_vec[1] <= -xmax
        /\ -xmax < 2 * (x_vec[1] + 1)

\* a grid of several positions for an odd xmax and a step of 2
C8_Witness ==
    /\ pc_plant # "call"
    /\ xmax % 2 = 1
    /\ dx = 2
    /\ Len(x_vec) >= 2

\* the sites, in list order, whose span holds the position
Covering(x) == {j \in 1..Len(centers) : InHalfOpenSpan(x, centers[j], w)}

\* C9: a triangle plant has, at every position x, the ramp x - c + w/2 of
\* the last placed center c whose half-open span holds x (twice that in
\* plant), never a sum of ramps, and 0 where no span holds x.
C9_TriangleLastWins ==
    (pc_plant = "return" /\ Lower(shape) = TriangleTag) =>
        \A i \in 1..Len(x_vec) :
            plant[i] = IF Covering(x_vec[i]) = {} THEN 0
                       ELSE 2 * x_vec[i]
                            - 2 * centers[SetMax(Covering(x_vec[i]))] + w

\* a triangle plant with a position in the spans of two different centers
C9_Witness ==
    /\ pc_plant = "return"
    /\ Lower(shape) = TriangleTag
    /\ Len(centers) = 2
    /\ centers[1] # centers[2]
    /\ \E i \in 1..Len(x_vec) : Covering(x_vec[i]) = {1, 2}

\* C4: a call of cleanfreq that completes leaves the length of the index
\* unchanged, sets the element at position N//2 (counted from 0) to None,
\* leaves every other element of the index as it was and leaves the data
\* untouched; the call fails (IndexError) only on an empty spectrum, which
\* it leaves as it was.
C4_CleanfreqFrame ==
    [][ /\ (pc_clean = "call" /\ pc_clean' = "done") =>
            /\ Len(sig_index') = Len(sig_index)
            /\ Len(sig_index) \div 2 + 1 \in 1..Len(sig_index')
            /\ sig_index'[Len(sig_index) \div 2 + 1] = {}
            /\ \A i \in 1..Len(sig_index) :
                  i # Len(sig_index) \div 2 + 1 => sig_index'[i] = sig_index[i]
            /\ sig_data' = sig_data
        /\ (pc_clean = "call" /\ pc_clean' = "IndexError") =>
            /\ Len(sig_index) = 0
            /\ sig_index' = sig_index
            /\ sig_data' = sig_data ]_vars

\* a spectrum of four frequencies after the call: the third is None
C4_Witness ==
    /\ pc_clean = "done"
    /\ Len(sig_index) = 4
    /\ sig_index[3] = {}
    /\ \A i \in {1, 2, 4} : sig_index[i] # {}

\* C7: the value cleanfreq returns is the spectrum whose index was modified.
C7_ReturnsSignal == pc_clean = "done" => ret_clean = "sig"

\* whether q is floor(a / b), for b > 0
IsFloor(q, a, b) == q * b <= a /\ a < (q + 1) * b

\* C10: every call of an estimator has segment length floor(N / navgs) and
\* overlap floor(segment length * overlap), with the window and the detrend
\* mode of the caller; averaged_tf calls the PSD, the CSD and the coherence
\* with one segment length, overlap, window and detrend mode; when navgs
\* exceeds N the segment length is 0 and the call still reaches the
\* estimators: the only failure before them is the IndexError of a signal
\* of fewer than two samples, whose dt does not exist.
C10_Segmentation ==
    /\ \A k \in 1..Len(est_calls) :
          /\ IsFloor(est_calls[k].nperseg, tsig_len, navgs)
          /\ IsFloor(est_calls[k].noverlap,
                     est_calls[k].nperseg * overlap[1], overlap[2])
          /\ est_calls[k].window = window
          /\ est_calls[k].detrend = detrend
          /\ est_calls[k].nperseg = est_calls[1].nperseg
          /\ est_calls[k].noverlap = est_calls[1].noverlap
    /\ (pc_seg = "done" /\ seg_fn = "averaged_tf") =>
          [k \in 1..Len(est_calls) |-> est_calls[k].est]
              = <<"welch", "csd", "coherence">>
    /\ (pc_seg = "done" /\ seg_fn = "averaged_psd") =>
          [k \in 1..Len(est_calls) |-> est_calls[k].est] = <<"welch">>
    /\ pc_seg = "IndexError" => tsig_len < 2
    /\ (pc_seg = "done" /\ navgs > tsig_len) =>
          \A k \in 1..Len(est_calls) : est_calls[k].nperseg = 0

\* averaged_tf on five samples with two averages and an overlap of 2/3:
\* segments of two samples that overlap by floor(4/3) = 1
C10_Witness ==
    /\ pc_seg = "done"
    /\ seg_fn = "averaged_tf"
    /\ tsig_len = 5
    /\ navgs = 2
    /\ overlap = <<2, 3>>
    /\ Len(est_calls) = 3
    /\ est_calls[3].nperseg = 2
    /\ est_calls[3].noverlap = 1

\* whether the value is the number 1
IsOne(value) ==
    /\ value.den # 0
    /\ value.coef[1] = value.den
    /\ \A t \in 2..Len(value.coef) : value.coef[t] = 0

\* C6: for a plant of nonzero sum and a nonzero speed of either sign, the
\* filter is exactly 1 at the bin of frequency 0, and there is such a bin.
C6_ZeroFrequencyGain ==
    (pc_cam = "done" /\ SumSeq(cam_plant) # 0) =>
        /\ \E k \in 1..Len(camfreq) : camfreq[k].num = 0
        /\ \A k \in 1..Len(camfreq) :
              camfreq[k].num = 0 => IsOne(camfilt[k])

\* the filter of a plant with two sites of different densities, away from
\* the origin, for a negative speed
C6_Witness ==
    /\ pc_cam = "done"
    /\ cloud_speed < 0
    /\ Len(cam_plant) = 3
    /\ cam_plant[2] = 1
    /\ cam_plant[3] = 2
    /\ x_plant[1] # 0
    /\ IsOne(camfilt[1])

\* whether new_freq is the frequency axis of the input, sorted ascending
OwnSortedAxis ==
    /\ Len(new_freq) = Len(tf_index)
    /\ Range(new_freq) = Range(tf_index)
    /\ \A i \in 1..(Len(new_freq) - 1) : new_freq[i] < new_freq[i + 1]

\* the row of the input that holds the frequency f
RowOf(f) == CHOOSE r \in 1..Len(tf_index) : tf_index[r] = f

\* C5: a transfer function interpolated onto its own frequency axis, sorted
\* ascending, has at each frequency the value the input has there (the same
\* magnitude, the same phase modulo a full turn), and the type and the
\* columns of the input.
C5_InterpIdentity ==
    (pc_interp = "done" /\ OwnSortedAxis) =>
        /\ interp_filt.kind = tf_kind
        /\ interp_filt.index = new_freq
        /\ Len(interp_filt.rows) = Len(tf_index)
        /\ \A i \in 1..Len(interp_filt.rows) :
              /\ Len(interp_filt.rows[i]) = Len(tf_values[1])
              /\ \A c \in 1..Len(interp_filt.rows[i]) :
                    LET got == interp_filt.rows[i][c]
                        was == tf_values[RowOf(new_freq[i])][c]
                    IN  /\ got.den > 0
                        /\ got.mag = was.mag * got.den
                        /\ (got.ang - was.ang * got.den) % (Turn * got.den) = 0

\* a DataFrame of two columns whose rows are not sorted, interpolated onto
\* its sorted axis, with a phase that np.unwrap moved by a full turn
C5_Witness ==
    /\ pc_interp = "done"
    /\ OwnSortedAxis
    /\ tf_kind = "DataFrame"
    /\ Len(tf_values[1]) = 2
    /\ tf_index # new_freq
    /\ \E i \in 1..Len(interp_filt.rows) :
          interp_filt.rows[i][2].ang
              # tf_values[RowOf(new_freq[i])][2].ang * interp_filt.rows[i][2].den

\* whether the frequencies of the filter span every bin of the signal
SpansBins(fv, idx) ==
    \A k \in 1..Len(fv) :
        SetMin(Range(idx)) <= fv[k] /\ fv[k] <= SetMax(Range(idx))

\* the largest magnitude of the frequencies of a sequence
MaxMagnitude(q) == SetMax({Abs(q[k]) : k \in 1..Len(q)})

\* C2: apply_filter goes on to interp_tf and to the multiplication only when
\* the largest frequency magnitude of the filter is at least that of the
\* bins of the signal and the filter spans every bin; otherwise it has
\* failed with the coverage error before them.
C2_CoverageErrorBeforeInterp ==
    pc_filter \in {"interp", "multiply", "done", "ValueError"} =>
        /\ SpansBins(f_vec, comp_index)
        /\ MaxMagnitude(comp_index) >= MaxMagnitude(f_vec)

=============================================================================
